---- MODULE Spec2Model ----
(***************************************************************************)
(* One run of the Streamlit script src/streamlit_app.py: an uploaded CSV   *)
(* file is validated (filename, column count, dtypes, datetime column),    *)
(* renamed, split into batches of max_records rows, shaped into JSON       *)
(* payloads and posted batch by batch to the ingestion API.                *)
(*                                                                         *)
(* src/frontend.py is the earlier form of the same script: the same lines  *)
(* up to the dtype check, no datetime check, and one request in place of   *)
(* the submission loop.  A run is a run of one of the two scripts.         *)
(*                                                                         *)
(* Conventions.  A CSV cell is the text between two commas.  Python's      *)
(* 0-based column k is position k+1 of a TLA+ sequence; a column label is  *)
(* the text of its number ("0", "1", ...) until the rename.  A filename is *)
(* the sequence of its pieces, <<"jobs", ".csv">>, so that                 *)
(* str.replace(".csv", "") is computed and not looked up.  A text shown to *)
(* the user is a sequence of its pieces.                                   *)
(***************************************************************************)
EXTENDS Integers, Sequences, FiniteSets, TLC

VARIABLES
    script,                 \* the script that runs: "streamlit_app" or "frontend"
    uploaded_file,          \* st.file_uploader's value: [present, name, rows]
    button,                 \* st.button("Insert into Snowflake") of this run
    pc,                     \* position of the script
    df,                     \* the DataFrame: [columns, dtypes, rows]
    splitted_df_list,       \* np.array_split's result
    json_data_for_api_list, \* the payloads, one per batch
    idx,                    \* position of the submission loop in the payload list
    all_inserted,
    final_message,
    sent,                   \* the request bodies posted so far, in order
    responses,              \* the responses received so far, in order
    outcome,                \* the user-visible end state of the run
    message,                \* the text of the last st.error / st.success
    performed               \* the steps of the pipeline this run has executed

vars == <<script, uploaded_file, button, pc, df, splitted_df_list, json_data_for_api_list,
          idx, all_inserted, final_message, sent, responses, outcome, message,
          performed>>

(***************************************************************************)
(* Bounds of the model.                                                    *)
(***************************************************************************)
MaxSmallRows == 2   \* small files: 1..MaxSmallRows rows, one cell of any kind
MaxCols == 5        \* files have 1..MaxCols columns
MaxBatches == 3     \* large files fill up to MaxBatches batches
MaxOffset == 3      \* row counts this close to a multiple of max_records

max_records == 1000

(***************************************************************************)
(* The schema registry.                                                    *)
(***************************************************************************)
hired_employees_csv == <<"hired_employees", ".csv">>
departments_csv == <<"departments", ".csv">>
jobs_csv == <<"jobs", ".csv">>

valid_filenames_plus == {hired_employees_csv, departments_csv, jobs_csv, <<"employees", ".csv">>}

valid_filenames == {hired_employees_csv, departments_csv, jobs_csv}

desired_dtypes ==
    (hired_employees_csv :> << <<"int">>, <<"object">>, <<"object">>,
                               <<"int", "float">>, <<"int", "float">> >>)
    @@ (departments_csv :> << <<"int">>, <<"object">> >>)
    @@ (jobs_csv :> << <<"int">>, <<"object">> >>)

column_names_swapped ==
    (hired_employees_csv :>
        ("0" :> "id" @@ "1" :> "name" @@ "2" :> "datetime"
         @@ "3" :> "job_id" @@ "4" :> "department_id"))
    @@ (departments_csv :> ("0" :> "id" @@ "1" :> "job"))
    @@ (jobs_csv :> ("0" :> "id" @@ "1" :> "department"))

column_names ==
    (hired_employees_csv :>
        ("0" :> "id" @@ "1" :> "name" @@ "2" :> "datetime"
         @@ "3" :> "department_id" @@ "4" :> "job_id"))
    @@ (departments_csv :> ("0" :> "id" @@ "1" :> "department"))
    @@ (jobs_csv :> ("0" :> "id" @@ "1" :> "job"))

(***************************************************************************)
(* Cells and the kinds pandas gives them.                                  *)
(***************************************************************************)
DateCell == "2021-07-27T16:02:08Z"

\* What pd.read_csv makes of the text of one cell.
CellKind(c) ==
    CASE c = "" -> "nan"
      [] c = "NaN" -> "nan"
      [] c = "abc" -> "text"
      [] c = "True" -> "bool"
      [] c = "2.5" -> "float"
      [] c = DateCell -> "date"
      [] OTHER -> "int"

\* The dtype pd.read_csv infers for a column from the kinds of its cells.
InferDtype(kinds) ==
    IF kinds \subseteq {"int"} THEN "int64"
    ELSE IF kinds \subseteq {"int", "float", "nan"} THEN "float64"
    ELSE IF kinds \subseteq {"bool"} THEN "bool"
    ELSE "object"

\* The characters of the dtype and kind names, for Python's `in` on strings.
Chars(s) ==
    CASE s = "int" -> <<"i", "n", "t">>
      [] s = "float" -> <<"f", "l", "o", "a", "t">>
      [] s = "object" -> <<"o", "b", "j", "e", "c", "t">>
      [] s = "int64" -> <<"i", "n", "t", "6", "4">>
      [] s = "int32" -> <<"i", "n", "t", "3", "2">>
      [] s = "float64" -> <<"f", "l", "o", "a", "t", "6", "4">>
      [] s = "float32" -> <<"f", "l", "o", "a", "t", "3", "2">>
      [] s = "bool" -> <<"b", "o", "o", "l">>

\* Python's `a in b` for strings a and b.
StrIn(a, b) ==
    \E i \in 0..(Len(b) - Len(a)) : SubSeq(b, i + 1, i + Len(a)) = a

NoFile == [present |-> FALSE, name |-> <<>>, rows |-> <<>>]
NoDf == [columns |-> <<>>, dtypes |-> <<>>, rows |-> <<>>]

Range(s) == {s[i] : i \in 1..Len(s)}

\* pd.read_csv(uploaded_file, header=None) on a file with at least one row:
\* positional labels, an empty cell read as NaN, dtypes inferred per column.
read_csv(file) ==
    LET ncols == Len(file.rows[1])
        rows == [r \in 1..Len(file.rows) |->
                    [c \in 1..ncols |->
                        IF file.rows[r][c] = "" THEN "NaN" ELSE file.rows[r][c]]]
    IN [columns |-> [c \in 1..ncols |-> ToString(c - 1)],
        dtypes |-> [c \in 1..ncols |->
                      InferDtype({CellKind(file.rows[r][c]) : r \in 1..Len(file.rows)})],
        rows |-> rows]

(***************************************************************************)
(* transform_df_dtypes.                                                    *)
(***************************************************************************)
\* Series.astype(target): the cast raises on a cell the target cannot hold.
astype(frame, c, target) ==
    LET kinds == {CellKind(frame.rows[r][c]) : r \in 1..Len(frame.rows)}
        newdtype == CASE target = "i" -> "int32"
                      [] target = "f" -> "float32"
                      [] OTHER -> "none"
        raises == \/ newdtype = "none"
                  \/ target = "i" /\ kinds \cap {"text", "date", "nan"} # {}
                  \/ target = "f" /\ kinds \cap {"text", "date"} # {}
    IN [raised |-> raises,
        df |-> IF raises THEN frame
               ELSE [frame EXCEPT !.dtypes[c] = newdtype]]

\* The loop over one column's dtype_list, from its k-th entry on, with the
\* value correct_dtype has when the entry is reached.  The test of
\* correct_dtype stands inside the loop, after the break.
RECURSIVE dtype_list_loop(_, _, _, _, _)
dtype_list_loop(frame, c, dtype_list, k, correct_dtype) ==
    IF k > Len(dtype_list) THEN [raised |-> FALSE, df |-> frame]
    ELSE IF ~StrIn(Chars(dtype_list[k]), Chars(frame.dtypes[c]))
         THEN [raised |-> FALSE, df |-> frame]      \* correct_dtype = False; break
    ELSE IF ~correct_dtype
         THEN \* dtype_list[column][0]: the list indexed by the column number,
              \* then the first character of that entry
              IF c > Len(dtype_list) THEN [raised |-> TRUE, df |-> frame]
              ELSE LET cast == astype(frame, c, Chars(dtype_list[c])[1])
                   IN IF cast.raised THEN cast
                      ELSE dtype_list_loop(cast.df, c, dtype_list, k + 1, correct_dtype)
    ELSE dtype_list_loop(frame, c, dtype_list, k + 1, correct_dtype)

\* The loop over the columns of desired_dtypes[filename], from column c on.
RECURSIVE columns_loop(_, _, _)
columns_loop(frame, by_filename, c) ==
    IF c > Len(by_filename) THEN [raised |-> FALSE, df |-> frame]
    ELSE IF c > Len(frame.columns) THEN [raised |-> TRUE, df |-> frame]  \* KeyError
    ELSE LET one == dtype_list_loop(frame, c, by_filename[c], 1, TRUE)
         IN IF one.raised THEN one ELSE columns_loop(one.df, by_filename, c + 1)

transform_df_dtypes(filename, frame) ==
    LET r == columns_loop(frame, desired_dtypes[filename], 1)
    IN IF r.raised
       THEN [valid |-> FALSE, df |-> NoDf,
             message |-> <<"The data types of file">> \o filename
                         \o <<"were not expected. Details:">>]
       ELSE [valid |-> TRUE, df |-> r.df,
             message |-> <<"The data types of CSV are correct.">>]

(***************************************************************************)
(* is_valid_datetime_column.                                               *)
(***************************************************************************)
\* pd.to_datetime on a column: the ways it can end.  Numbers are read as
\* epoch offsets; a column of booleans raises TypeError; in a column of
\* strings a text that is no date raises ValueError, and whether the text of
\* a number is accepted depends on the pandas version.
to_datetime(frame, c) ==
    LET kinds == {CellKind(frame.rows[r][c]) : r \in 1..Len(frame.rows)}
    IN IF frame.dtypes[c] = "bool" THEN {"TypeError"}
       ELSE IF frame.dtypes[c] # "object" THEN {"ok"}
       ELSE IF kinds \cap {"text", "bool"} # {} THEN {"ValueError"}
       ELSE IF kinds \subseteq {"date", "nan"} THEN {"ok"}
       ELSE {"ok", "ValueError"}

\* The results is_valid_datetime_column(df, column_name) can give; raised is
\* the exception that leaves the function uncaught.
is_valid_datetime_column(frame, column_name) ==
    IF Len(frame.columns) = 5
    THEN {CASE e = "ok" -> [valid |-> TRUE, message |-> <<>>, raised |-> FALSE]
            [] e = "ValueError" ->
                 [valid |-> FALSE,
                  message |-> <<"The third column has invalid datetime values.">>,
                  raised |-> FALSE]
            [] OTHER -> [valid |-> FALSE, message |-> <<>>, raised |-> TRUE]
          : e \in to_datetime(frame, column_name + 1)}
    ELSE {[valid |-> TRUE, message |-> <<>>, raised |-> FALSE]}

(***************************************************************************)
(* Rename, split, payload.                                                 *)
(***************************************************************************)
rename(frame, mapping) ==
    [frame EXCEPT !.columns =
        [c \in 1..Len(frame.columns) |->
            IF frame.columns[c] \in DOMAIN mapping
            THEN mapping[frame.columns[c]] ELSE frame.columns[c]]]

\* list(range(start, stop, step)) for step > 0.
py_range(start, stop, step) ==
    LET count == IF stop > start THEN (stop - start + step - 1) \div step ELSE 0
    IN [i \in 1..count |-> start + (i - 1) * step]

split_indices_inclusive(n) == py_range(max_records, n + 1, max_records)

\* range(max_records, len(df), max_records)
split_indices(n) == py_range(max_records, n, max_records)

\* np.array_split(ary, indices): the slices between consecutive division points.
array_split(frame, indices) ==
    LET Ntotal == Len(frame.rows)
        div_points == <<0>> \o indices \o <<Ntotal>>
    IN [i \in 1..(Len(indices) + 1) |->
            [frame EXCEPT !.rows = SubSeq(frame.rows, div_points[i] + 1, div_points[i + 1])]]

\* uploaded_file.name.replace(".csv", "")
table_name_of(name) == SelectSeq(name, LAMBDA t : t # ".csv")

prepare_keeps_nan(table_name, frame) ==
    [table |-> (table_name :>
        [col \in Range(frame.columns) |->
            LET c == CHOOSE k \in 1..Len(frame.columns) : frame.columns[k] = col
            IN [r \in 1..Len(frame.rows) |-> frame.rows[r][c]]])]

\* df.to_dict(orient="list"), NaN dumped as null, wrapped under the table name.
prepare_elem_df_for_api(table_name, frame) ==
    LET to_dict == [col \in Range(frame.columns) |->
                      LET c == CHOOSE k \in 1..Len(frame.columns) : frame.columns[k] = col
                      IN [r \in 1..Len(frame.rows) |-> frame.rows[r][c]]]
        json_data == [col \in DOMAIN to_dict |->
                        [r \in 1..Len(to_dict[col]) |->
                            IF to_dict[col][r] = "NaN" THEN "null" ELSE to_dict[col][r]]]
    IN [table |-> (table_name :> json_data)]

expected_columns_always_two(name) == 2

\* 5 if uploaded_file.name == "hired_employees.csv" else 2
expected_columns_of(name) == IF name = hired_employees_csv THEN 5 ELSE 2

is_error_failed(response_text) == response_text.status = "failed"

\* response_text["status"] == "error"
is_error(response_text) == response_text.status = "error"

keep_first_message(old, response_text) == IF old = "" THEN response_text.message ELSE old

\* final_message = response_text["message"]
loop_final_message(old, response_text) == response_text.message

loop_json_data_reversed(list, i) == list[Len(list) - i + 1]

\* the i-th json_data of `for json_data in json_data_for_api_list`
loop_json_data(list, i) == list[i]

(***************************************************************************)
(* The files a run can be given.                                           *)
(***************************************************************************)
\* A well-formed cell of row r at position c: the id is the row number.
StdCell(r, c) ==
    CASE c = 1 -> ToString(r)
      [] c = 2 -> "abc"
      [] c = 3 -> DateCell
      [] OTHER -> "1"

CellValues == {"", "abc", "True", "2.5", DateCell, "7"}

Filenames == valid_filenames \cup {<<"employees", ".csv">>, <<"Jobs", ".csv">>}

StdRows(n, ncols) == [r \in 1..n |-> [c \in 1..ncols |-> StdCell(r, c)]]

\* Small files: well-formed rows with one cell replaced by a cell of any kind.
SmallFiles ==
    {[present |-> TRUE, name |-> name, rows |-> <<>>] : name \in Filenames}
    \cup
    {[present |-> TRUE, name |-> name,
      rows |-> [r \in 1..n |-> [c \in 1..ncols |->
                  IF r = cell[1] /\ c = cell[2] THEN v ELSE StdCell(r, c)]]] :
        name \in Filenames, n \in 1..MaxSmallRows, ncols \in 1..MaxCols,
        cell \in (1..MaxSmallRows) \X (1..MaxCols), v \in CellValues}

LargeRowCounts ==
    {q * max_records + d :
        q \in 1..(MaxBatches - 1), d \in {-1, 0, 1, max_records \div 2}}

\* Large files: well-formed rows, enough of them for several batches.
LargeFiles ==
    {[present |-> TRUE, name |-> name,
      rows |-> StdRows(n, IF name = hired_employees_csv THEN 5 ELSE 2)] :
        name \in valid_filenames, n \in LargeRowCounts}

Statuses == {"ok", "error", "partial"}
Messages == {"m1", "m2"}
Responses == [status : Statuses, message : Messages]

(***************************************************************************)
(* The script.                                                             *)
(***************************************************************************)
Init ==
    /\ script \in {"streamlit_app", "frontend"}
    /\ uploaded_file \in {NoFile} \cup SmallFiles \cup LargeFiles
    /\ button \in BOOLEAN
    /\ pc = "start"
    /\ df = NoDf
    /\ splitted_df_list = <<>>
    /\ json_data_for_api_list = <<>>
    /\ idx = 1
    /\ all_inserted = TRUE
    /\ final_message = ""
    /\ sent = <<>>
    /\ responses = <<>>
    /\ outcome = "none"
    /\ message = <<>>
    /\ performed = {}

\* The run ends: the rest of the script is skipped.
End(o, m) ==
    /\ pc' = "done"
    /\ outcome' = o
    /\ message' = m

\* if uploaded_file is not None
CheckUploaded ==
    /\ pc = "start"
    /\ IF uploaded_file.present
       THEN pc' = "check_filename" /\ UNCHANGED <<outcome, message>>
       ELSE End("file-not-selected", message)
    /\ UNCHANGED <<script, uploaded_file, button, df, splitted_df_list, json_data_for_api_list,
                   idx, all_inserted, final_message, sent, responses, performed>>

\* if uploaded_file.name not in valid_filenames
CheckFilename ==
    /\ pc = "check_filename"
    /\ IF uploaded_file.name \notin valid_filenames
       THEN End("invalid-filename",
                <<"Invalid filename. Please select a valid CSV filename.">>)
       ELSE /\ pc' = "read_csv"
            /\ message' = <<"File uploaded successfully.">>
            /\ UNCHANGED outcome
    /\ UNCHANGED <<script, uploaded_file, button, df, splitted_df_list, json_data_for_api_list,
                   idx, all_inserted, final_message, sent, responses, performed>>

\* df = pd.read_csv(uploaded_file, header=None), EmptyDataError caught at the end
ReadCsv ==
    /\ pc = "read_csv"
    /\ performed' = performed \cup {"read_csv"}
    /\ IF uploaded_file.rows = <<>>
       THEN /\ End("empty-file-error",
                   <<"Empty CSV file. Please upload a file with data.">>)
            /\ UNCHANGED df
       ELSE /\ df' = read_csv(uploaded_file)
            /\ pc' = "check_columns"
            /\ UNCHANGED <<outcome, message>>
    /\ UNCHANGED <<script, uploaded_file, button, splitted_df_list, json_data_for_api_list,
                   idx, all_inserted, final_message, sent, responses>>

\* if df.shape[1] != expected_columns
CheckColumns ==
    /\ pc = "check_columns"
    /\ performed' = performed \cup {"check_columns"}
    /\ LET expected_columns == expected_columns_of(uploaded_file.name)
       IN IF Len(df.columns) # expected_columns
          THEN End("invalid-column-count",
                   <<"Invalid number of columns. Expected",
                     ToString(expected_columns), "columns.">>)
          ELSE pc' = "transform" /\ UNCHANGED <<outcome, message>>
    /\ UNCHANGED <<script, uploaded_file, button, df, splitted_df_list, json_data_for_api_list,
                   idx, all_inserted, final_message, sent, responses>>

\* valid_transformation, df, transform_message = transform_df_dtypes(name, df)
TransformDtypes ==
    /\ pc = "transform"
    /\ performed' = performed \cup {"transform_df_dtypes"}
    /\ IF uploaded_file.name \notin DOMAIN desired_dtypes
       THEN \* desired_dtypes[filename] stands before the try
            End("exception", <<"KeyError">>) /\ UNCHANGED df
       ELSE LET r == transform_df_dtypes(uploaded_file.name, df)
            IN /\ df' = r.df
               /\ IF ~r.valid
                  THEN End("invalid-dtypes", r.message)
                  ELSE IF script = "frontend"
                  THEN \* st.success(transform_message), then the rename
                       pc' = "rename" /\ message' = r.message /\ UNCHANGED outcome
                  ELSE pc' = "check_datetime" /\ UNCHANGED <<outcome, message>>
    /\ UNCHANGED <<script, uploaded_file, button, splitted_df_list, json_data_for_api_list,
                   idx, all_inserted, final_message, sent, responses>>

\* valid_datetime_colum, valid_datetime_message = is_valid_datetime_column(df, 2)
CheckDatetime ==
    /\ pc = "check_datetime"
    /\ performed' = performed \cup {"is_valid_datetime_column"}
    /\ \E r \in is_valid_datetime_column(df, 2) :
          IF r.raised THEN End("exception", <<"TypeError">>)
          ELSE IF ~r.valid THEN End("invalid-datetime", r.message)
          ELSE pc' = "rename" /\ UNCHANGED <<outcome, message>>
    /\ UNCHANGED <<script, uploaded_file, button, df, splitted_df_list, json_data_for_api_list,
                   idx, all_inserted, final_message, sent, responses>>

\* df = df.rename(columns=column_names[uploaded_file.name])
Rename ==
    /\ pc = "rename"
    /\ performed' = performed \cup {"rename"}
    /\ IF uploaded_file.name \notin DOMAIN column_names
       THEN End("exception", <<"KeyError">>) /\ UNCHANGED df
       ELSE /\ df' = rename(df, column_names[uploaded_file.name])
            /\ pc' = "split"
            /\ message' = IF script = "frontend"
                          THEN <<"The columns of DataFrame were renamed.">>
                          ELSE message
            /\ UNCHANGED outcome
    /\ UNCHANGED <<script, uploaded_file, button, splitted_df_list, json_data_for_api_list,
                   idx, all_inserted, final_message, sent, responses>>

\* splitted_df_list = np.array_split(df, range(max_records, len(df), max_records))
Split ==
    /\ pc = "split"
    /\ performed' = performed \cup {"array_split"}
    /\ splitted_df_list' = array_split(df, split_indices(Len(df.rows)))
    /\ pc' = "payload"
    /\ UNCHANGED <<script, uploaded_file, button, df, json_data_for_api_list,
                   idx, all_inserted, final_message, sent, responses, outcome, message>>

\* the loop that fills json_data_for_api_list
BuildPayloads ==
    /\ pc = "payload"
    /\ performed' = performed \cup {"prepare_elem_df_for_api"}
    /\ LET table_name == table_name_of(uploaded_file.name)
       IN json_data_for_api_list' =
            [i \in 1..Len(splitted_df_list) |->
                prepare_elem_df_for_api(table_name, splitted_df_list[i])]
    /\ pc' = "button"
    /\ UNCHANGED <<script, uploaded_file, button, df, splitted_df_list,
                   idx, all_inserted, final_message, sent, responses, outcome, message>>

\* if st.button("Insert into Snowflake"): all_inserted = True; final_message = ""
Button ==
    /\ pc = "button"
    /\ script = "streamlit_app"
    /\ IF button
       THEN /\ all_inserted' = TRUE
            /\ final_message' = ""
            /\ idx' = 1
            /\ pc' = IF Len(json_data_for_api_list) = 0 THEN "final" ELSE "post"
            /\ UNCHANGED <<outcome, message>>
       ELSE /\ End("validated-and-displayed", message)
            /\ UNCHANGED <<all_inserted, final_message, idx>>
    /\ UNCHANGED <<script, uploaded_file, button, df, splitted_df_list, json_data_for_api_list,
                   sent, responses, performed>>

\* frontend.py: if st.button(...): requests.post(api_url, data=json_data, ...)
\* where json_data is a name of prepare_elem_df_for_api alone: NameError.
FrontendButton ==
    /\ pc = "button"
    /\ script = "frontend"
    /\ IF button
       THEN End("exception", <<"NameError">>)
       ELSE End("validated-and-displayed", message)
    /\ UNCHANGED <<script, uploaded_file, button, df, splitted_df_list,
                   json_data_for_api_list, idx, all_inserted, final_message,
                   sent, responses, performed>>

\* One round of the loop: post the next json_data, read the response.
Post ==
    /\ pc = "post"
    /\ performed' = performed \cup {"post"}
    /\ \E response_text \in Responses :
          /\ sent' = Append(sent, loop_json_data(json_data_for_api_list, idx))
          /\ responses' = Append(responses, response_text)
          /\ final_message' = loop_final_message(final_message, response_text)
          /\ IF is_error(response_text)
             THEN /\ all_inserted' = FALSE
                  /\ pc' = "final"
                  /\ UNCHANGED idx
             ELSE /\ idx' = idx + 1
                  /\ pc' = IF idx + 1 > Len(json_data_for_api_list)
                           THEN "final" ELSE "post"
                  /\ UNCHANGED all_inserted
    /\ UNCHANGED <<script, uploaded_file, button, df, splitted_df_list, json_data_for_api_list,
                   outcome, message>>

\* if all_inserted: st.success(final_message) else: st.error(final_message)
Final ==
    /\ pc = "final"
    /\ IF all_inserted
       THEN End("submission-success", <<final_message>>)
       ELSE End("submission-error", <<final_message>>)
    /\ UNCHANGED <<script, uploaded_file, button, df, splitted_df_list, json_data_for_api_list,
                   idx, all_inserted, final_message, sent, responses, performed>>

Next ==
    \/ CheckUploaded
    \/ CheckFilename
    \/ ReadCsv
    \/ CheckColumns
    \/ TransformDtypes
    \/ CheckDatetime
    \/ Rename
    \/ Split
    \/ BuildPayloads
    \/ Button
    \/ FrontendButton
    \/ Post
    \/ Final

Spec == Init /\ [][Next]_vars

(***************************************************************************)
(* The batching step on its own: the renamed table of any number of rows,  *)
(* the empty table included (read_csv never yields it, np.array_split      *)
(* accepts it).                                                            *)
(***************************************************************************)
SplitRowCounts ==
    {q * max_records + d :
        q \in 0..(MaxBatches - 1), d \in (0..MaxOffset) \cup {max_records \div 2}}
    \cup {q * max_records - d : q \in 1..MaxBatches, d \in 0..MaxOffset}

RenamedTable(name, n) ==
    LET ncols == expected_columns_of(name)
        file == [present |-> TRUE, name |-> name, rows |-> StdRows(n, ncols)]
    IN IF n = 0
       THEN [columns |-> [c \in 1..ncols |-> column_names[name][ToString(c - 1)]],
             dtypes |-> [c \in 1..ncols |-> "object"],
             rows |-> <<>>]
       ELSE rename(read_csv(file), column_names[name])

InitSplit ==
    /\ script \in {"streamlit_app", "frontend"}
    /\ \E name \in valid_filenames, n \in SplitRowCounts :
          /\ uploaded_file = [present |-> TRUE, name |-> name,
                              rows |-> StdRows(n, expected_columns_of(name))]
          /\ df = RenamedTable(name, n)
    /\ button = FALSE
    /\ pc = "split"
    /\ splitted_df_list = <<>>
    /\ json_data_for_api_list = <<>>
    /\ idx = 1
    /\ all_inserted = TRUE
    /\ final_message = ""
    /\ sent = <<>>
    /\ responses = <<>>
    /\ outcome = "none"
    /\ message = <<"File uploaded successfully.">>
    /\ performed = {"read_csv", "check_columns", "transform_df_dtypes",
                    "is_valid_datetime_column", "rename"}

NextSplit == Split

SpecSplit == InitSplit /\ [][NextSplit]_vars

(***************************************************************************)
(* Properties.                                                             *)
(***************************************************************************)
ErrorIndexes == {i \in 1..Len(responses) : responses[i].status = "error"}
FirstError == CHOOSE i \in ErrorIndexes : \A j \in ErrorIndexes : i <= j

\* C1: fail-fast submission.  Nothing is posted after a response with
\* status "error": the first error response is the last response, exactly
\* the batches up to it were posted, and the run ends in the submission
\* error outcome showing that response's message.
C1_FailFast ==
    ErrorIndexes # {} =>
        /\ FirstError = Len(responses)
        /\ Len(sent) = FirstError
        /\ pc \in {"final", "done"}
        /\ pc = "done" =>
              /\ outcome = "submission-error"
              /\ message = <<responses[FirstError].message>>

\* Three batches, an error on the second: the third is never posted.
C1_Witness ==
    /\ pc = "done"
    /\ Len(json_data_for_api_list) = 3
    /\ Len(responses) = 2
    /\ responses[1].status = "ok"
    /\ responses[2].status = "error"
    /\ responses[1].message # responses[2].message
    /\ Len(sent) = 2

\* C2: all-success aggregation.  When the loop has run and no response has
\* status "error", every batch was posted and the run ends in the success
\* outcome showing the message of the last batch's response.
C2_AllSuccess ==
    (pc = "done" /\ responses # <<>> /\ ErrorIndexes = {}) =>
        /\ Len(sent) = Len(json_data_for_api_list)
        /\ Len(responses) = Len(json_data_for_api_list)
        /\ outcome = "submission-success"
        /\ message = <<responses[Len(json_data_for_api_list)].message>>

C2_Witness ==
    /\ pc = "done"
    /\ outcome = "submission-success"
    /\ Len(responses) = 3
    /\ responses[1].message # responses[3].message
    /\ responses[2].message # responses[3].message
    /\ responses[2].status = "partial"

RECURSIVE ConcatRows(_, _)
ConcatRows(list, i) ==
    IF i > Len(list) THEN <<>> ELSE list[i].rows \o ConcatRows(list, i + 1)

\* C3: batching.  A table of n rows is split into max(1, ceil(n/1000))
\* batches, none of more than 1000 rows, all but the last of exactly 1000
\* rows, which put end to end are the rows of the table in their order.
C3_Batching ==
    pc = "payload" =>
        LET n == Len(df.rows)
            k == Len(splitted_df_list)
        IN /\ k = (IF n = 0 THEN 1 ELSE (n + 999) \div 1000)
           /\ \A i \in 1..k : Len(splitted_df_list[i].rows) <= 1000
           /\ \A i \in 1..(k - 1) : Len(splitted_df_list[i].rows) = 1000
           /\ \A i \in 1..k : splitted_df_list[i].columns = df.columns
           /\ ConcatRows(splitted_df_list, 1) = df.rows

\* 2500 rows give batches of 1000, 1000 and 500 rows.
C3_Witness ==
    /\ pc = "payload"
    /\ Len(df.rows) = 2500
    /\ [i \in 1..Len(splitted_df_list) |-> Len(splitted_df_list[i].rows)]
         = <<1000, 1000, 500>>
    /\ splitted_df_list[3].rows[1][1] = "2001"

HasExpectedShape ==
    /\ uploaded_file.present
    /\ uploaded_file.name \in {hired_employees_csv, departments_csv, jobs_csv}
    /\ uploaded_file.rows # <<>>
    /\ Len(uploaded_file.rows[1])
         = (IF uploaded_file.name = hired_employees_csv THEN 5 ELSE 2)

FileKinds(c) == {CellKind(uploaded_file.rows[r][c]) : r \in 1..Len(uploaded_file.rows)}

AfterValidation == {"rename", "split", "payload", "button", "post", "final"}
LaterSteps == {"rename", "array_split", "prepare_elem_df_for_api", "post"}

\* C4: dtype validation.  A file with a column whose dtype name contains
\* none of the column's acceptable kinds, and whose cast to the first
\* acceptable kind fails (a text among the cells of a column that is to be
\* int), ends in the invalid-dtypes outcome without rename, batching or
\* submission.
C4_DtypeRejected ==
    (/\ HasExpectedShape
     /\ \E c \in 1..Len(uploaded_file.rows[1]) :
           LET kinds == desired_dtypes[uploaded_file.name][c]
           IN /\ \A k \in 1..Len(kinds) :
                    ~StrIn(Chars(kinds[k]), Chars(InferDtype(FileKinds(c))))
              /\ kinds[1] = "int"
              /\ "text" \in FileKinds(c))
    => /\ pc \notin AfterValidation \cup {"check_datetime"}
       /\ performed \cap (LaterSteps \cup {"is_valid_datetime_column"}) = {}
       /\ pc = "done" => outcome = "invalid-dtypes"

\* C5: datetime validation.  A five-column hired_employees.csv with a value
\* in its third column that is no date (a text, a boolean) ends in the
\* invalid-datetime outcome with the fixed message, without rename, batching
\* or submission; a table of another column count is never rejected by the
\* datetime check.
C5_DatetimeRejected ==
    /\ (/\ script = "streamlit_app"
        /\ HasExpectedShape
        /\ uploaded_file.name = hired_employees_csv
        /\ FileKinds(3) \cap {"text", "bool"} # {})
       => /\ pc \notin AfterValidation
          /\ performed \cap LaterSteps = {}
          /\ pc = "done" =>
                /\ outcome = "invalid-datetime"
                /\ message = <<"The third column has invalid datetime values.">>
    /\ (uploaded_file.rows # <<>> /\ Len(uploaded_file.rows[1]) # 5)
       => outcome # "invalid-datetime"

\* C6: filename gate.  A file of another name than the three valid ones is
\* never parsed, checked, renamed, batched or submitted, and its run ends in
\* the invalid-filename outcome.
C6_FilenameGate ==
    (/\ uploaded_file.present
     /\ uploaded_file.name
          \notin {<<"hired_employees", ".csv">>, <<"departments", ".csv">>,
                  <<"jobs", ".csv">>})
    => /\ performed = {}
       /\ df = NoDf
       /\ splitted_df_list = <<>>
       /\ json_data_for_api_list = <<>>
       /\ sent = <<>>
       /\ pc \in {"start", "check_filename", "done"}
       /\ pc = "done" => outcome = "invalid-filename"

C6_Witness ==
    /\ pc = "done"
    /\ outcome = "invalid-filename"
    /\ uploaded_file.name = <<"Jobs", ".csv">>
    /\ Len(uploaded_file.rows) = 2
    /\ button

\* C7: column-count gate.  A file of a valid name whose column count is not
\* the expected one (5 for hired_employees.csv, 2 for the other two) ends in
\* the invalid-column-count outcome, its message naming the expected count,
\* with no dtype check, datetime check, rename, batching or submission.
C7_ColumnCountGate ==
    (/\ uploaded_file.present
     /\ uploaded_file.name \in {hired_employees_csv, departments_csv, jobs_csv}
     /\ uploaded_file.rows # <<>>
     /\ Len(uploaded_file.rows[1])
          # (IF uploaded_file.name = hired_employees_csv THEN 5 ELSE 2))
    => /\ performed \subseteq {"read_csv", "check_columns"}
       /\ sent = <<>>
       /\ splitted_df_list = <<>>
       /\ pc \in {"start", "check_filename", "read_csv", "check_columns", "done"}
       /\ pc = "done" =>
             /\ outcome = "invalid-column-count"
             /\ message = <<"Invalid number of columns. Expected",
                            IF uploaded_file.name = hired_employees_csv
                            THEN "5" ELSE "2",
                            "columns.">>

C7_Witness ==
    /\ pc = "done"
    /\ outcome = "invalid-column-count"
    /\ uploaded_file.name = hired_employees_csv
    /\ Len(uploaded_file.rows[1]) = 2
    /\ message[2] = "5"

DtypeOfKind(kind) ==
    CASE kind = "int" -> "int64"
      [] kind = "float" -> "float64"
      [] kind = "object" -> "object"

ValidInput ==
    /\ HasExpectedShape
    /\ \A c \in 1..Len(uploaded_file.rows[1]) :
          \E k \in 1..Len(desired_dtypes[uploaded_file.name][c]) :
             InferDtype(FileKinds(c))
               = DtypeOfKind(desired_dtypes[uploaded_file.name][c][k])
    /\ uploaded_file.name = hired_employees_csv => FileKinds(3) = {"date"}

DocumentedNames ==
    CASE uploaded_file.name = hired_employees_csv ->
            <<"id", "name", "datetime", "department_id", "job_id">>
      [] uploaded_file.name = departments_csv -> <<"id", "department">>
      [] uploaded_file.name = jobs_csv -> <<"id", "job">>

\* C8: valid input is accepted.  A file of a valid name, of the expected
\* column count, whose columns have the declared kinds and whose third
\* column (hired_employees.csv) holds dates passes every validation step and
\* reaches batching with its columns renamed to the documented names: in
\* every state, what such a file is promised holds or the file is no such file.
C8_ValidAccepted ==
    \/ /\ outcome \notin {"file-not-selected", "invalid-filename", "empty-file-error",
                           "invalid-column-count", "invalid-dtypes", "invalid-datetime"}
       /\ pc \in {"split", "payload", "button", "post", "final"} =>
             df.columns = DocumentedNames
       /\ pc = "done" =>
             /\ df.columns = DocumentedNames
             /\ {"rename", "array_split", "prepare_elem_df_for_api"} \subseteq performed
             /\ \A i \in 1..Len(splitted_df_list) :
                   splitted_df_list[i].columns = DocumentedNames
    \/ ~ValidInput

C8_Witness ==
    /\ ValidInput
    /\ pc = "done"
    /\ uploaded_file.name = hired_employees_csv
    /\ InferDtype(FileKinds(4)) = "float64"
    /\ df.columns = <<"id", "name", "datetime", "department_id", "job_id">>

\* C9: payload shape.  The payload of every batch is {"table": {table_name:
\* columns}}, table_name the filename without ".csv", columns giving for
\* every column name of the batch the list of its values in row order, null
\* standing where the batch has NaN.  Stated of the list as the loop that
\* calls prepare_elem_df_for_api leaves it.
C9_PayloadShape ==
    pc = "button" =>
        /\ Len(json_data_for_api_list) = Len(splitted_df_list)
        /\ \A i \in 1..Len(splitted_df_list) :
              LET payload == json_data_for_api_list[i]
                  batch == splitted_df_list[i]
                  table_name == SubSeq(uploaded_file.name, 1, Len(uploaded_file.name) - 1)
              IN /\ uploaded_file.name[Len(uploaded_file.name)] = ".csv"
                 /\ DOMAIN payload = {"table"}
                 /\ DOMAIN payload.table = {table_name}
                 /\ DOMAIN payload.table[table_name] = Range(batch.columns)
                 /\ \A c \in 1..Len(batch.columns) :
                       LET values == payload.table[table_name][batch.columns[c]]
                       IN /\ Len(values) = Len(batch.rows)
                          /\ \A r \in 1..Len(batch.rows) :
                                values[r] = IF batch.rows[r][c] = "NaN" THEN "null"
                                            ELSE batch.rows[r][c]

\* A batch of two rows with a missing department_id in its first row.
C9_Witness ==
    /\ pc = "button"
    /\ uploaded_file.name = hired_employees_csv
    /\ Len(json_data_for_api_list) = 1
    /\ json_data_for_api_list[1].table[<<"hired_employees">>]["department_id"]
         = <<"null", "1">>
    /\ json_data_for_api_list[1].table[<<"hired_employees">>]["id"] = <<"1", "2">>

\* C10: submission order and no retry.  Every step leaves the requests sent
\* so far as they were or adds the next payload of the list, so that they
\* are always the first payloads of the list, in order, each once.
C10_SubmissionOrder ==
    [][/\ \/ sent' = sent
          \/ /\ Len(sent) < Len(json_data_for_api_list)
             /\ sent' = Append(sent, json_data_for_api_list[Len(sent) + 1])
       /\ Len(sent') <= Len(json_data_for_api_list')
       /\ sent' = SubSeq(json_data_for_api_list', 1, Len(sent'))]_vars

\* A partial submission as the end of a run: two of three batches posted.
C10_Witness ==
    /\ pc = "done"
    /\ Len(json_data_for_api_list) = 3
    /\ Len(sent) = 2
    /\ sent[1] = json_data_for_api_list[1]
    /\ sent[2] = json_data_for_api_list[2]
    /\ sent[1] # sent[2]
    /\ outcome = "submission-error"

====
